---- MODULE Spec2Model ----
(***************************************************************************)
(* Model of the Code Engine metrics collector (main.go).                   *)
(*                                                                         *)
(* main() runs collectInstanceMetrics() once (JOB_MODE = "task") or in an  *)
(* endless loop with a sleep in between.  A cycle prints a progress line,  *)
(* pages through the pod listing and the pod-metrics listing, prints one   *)
(* structured record per pod metric and ends with a timing line.           *)
(*                                                                         *)
(* Modelling conventions                                                   *)
(*  - a Go map[string]string is a function whose DOMAIN holds the keys     *)
(*    that are present; a lookup of a missing key yields "";               *)
(*  - a Go pointer is a set with at most one element, {} being nil;        *)
(*  - a resource.Quantity and every float64 derived from it is an exact    *)
(*    fraction [n, d] in lowest terms; d = 0 stands for a non-finite       *)
(*    float64 (n = 1: +Inf, n = 0: NaN);                                   *)
(*  - a continuation token is a sequence, <<>> being the empty token;      *)
(*  - a string handed to strconv.Atoi is a sequence of one-character       *)
(*    strings.                                                             *)
(***************************************************************************)
EXTENDS Integers, Sequences, FiniteSets, TLC

VARIABLES
    jobMode,              \* value of the JOB_MODE environment variable
    intervalEnv,          \* value of the INTERVAL environment variable
    arch,                 \* architecture the binary was built for
    podSource,            \* pages of the pod listing API
    metricsSource,        \* pages of the pod-metrics listing API
    pc,                   \* position of the process
    sleepDuration,        \* main: sleepDuration
    cycles,               \* number of cycles started so far
    slept,                \* durations (seconds) handed to time.Sleep so far
    pods,                 \* getAllPods: pods
    podsContinueToken,    \* getAllPods: podsContinueToken
    podReqs,              \* tokens of the pod List requests of this cycle
    podsFailedAt,         \* number of the pod List request that failed, else 0
    podMetrics,           \* getAllPodMetrics: podMetrics
    metricsContinueToken, \* getAllPodMetrics: metricsContinueToken
    metricsReqs,          \* tokens of the metrics List requests of this cycle
    metricsFailedAt,      \* number of the metrics List request that failed, else 0
    idx,                  \* collectInstanceMetrics: position of the range loop
    ctype,                \* collectInstanceMetrics: componentType, of the latest iteration
    pod,                  \* collectInstanceMetrics: pod, of the latest iteration
    limits,               \* collectInstanceMetrics: cpu, memory, of the latest iteration
    out                   \* lines written to stdout by the current cycle

envVars     == <<jobMode, intervalEnv, arch, podSource, metricsSource>>
driverVars  == <<sleepDuration, cycles, slept>>
podVars     == <<pods, podsContinueToken, podReqs, podsFailedAt>>
metricsVars == <<podMetrics, metricsContinueToken, metricsReqs, metricsFailedAt>>
loopVars    == <<idx, ctype, pod, limits>>
vars == <<envVars, driverVars, podVars, metricsVars, loopVars, pc, out>>

----------------------------------------------------------------------------
(* Bounds of the model *)

MaxCycles == 2
MaxPages == 3
MaxSamples == 2
MaxContainers == 2
MaxIntervalLen == 2

----------------------------------------------------------------------------
(* Exact fractions standing for resource.Quantity and float64 values *)

RECURSIVE GCD(_, _)
GCD(a, b) == IF b = 0 THEN a ELSE GCD(b, a % b)

Rat(n, d) == LET g == GCD(n, d) IN [n |-> n \div g, d |-> d \div g]

Zero == [n |-> 0, d |-> 1]
PosInf == [n |-> 1, d |-> 0]
NaN == [n |-> 0, d |-> 0]

IsFinite(x) == x.d /= 0

\* x * k for a float64 x and a positive integer constant k
FMul(x, k) ==
    IF ~IsFinite(x) THEN x
    ELSE LET g == GCD(k, x.d) IN Rat(x.n * (k \div g), x.d \div g)

\* x / k for a float64 x and a positive integer constant k
FDivInt(x, k) ==
    IF ~IsFinite(x) THEN x
    ELSE IF x.n = 0 THEN Zero
    ELSE LET g == GCD(x.n, k) IN Rat(x.n \div g, x.d * (k \div g))

\* x / y for finite non-negative float64 x and y: IEEE 754 gives +Inf for
\* a positive x over zero and NaN for zero over zero
FDiv(x, y) ==
    IF y.n = 0 THEN (IF x.n = 0 THEN NaN ELSE PosInf)
    ELSE IF x.n = 0 THEN Zero
    ELSE LET g1 == GCD(x.n, y.n)
             g2 == GCD(x.d, y.d)
         IN  Rat((x.n \div g1) * (y.d \div g2), (x.d \div g2) * (y.n \div g1))

\* Stand-ins for math.MinInt64 and math.MaxInt64 (the model checker's
\* integers are narrower than 64 bits; every finite value of the model is
\* far inside the stand-ins)
MinInt64 == -(2^30)
MaxInt64 == 2^30 - 1

Archs == {"amd64", "arm64"}

\* int64(x): truncation for a finite x.  For +Inf and NaN the Go
\* specification leaves the result to the implementation: amd64 yields
\* MinInt64 for both, arm64 saturates +Inf to MaxInt64 and yields 0 for NaN.
ToInt64(x, a) ==
    IF IsFinite(x) THEN x.n \div x.d
    ELSE IF a = "amd64" THEN MinInt64
    ELSE IF x.n = 0 THEN 0 ELSE MaxInt64

----------------------------------------------------------------------------
(* Labels and classification *)

BuildRunLabel == "buildrun.shipwright.io/name"
BuildLabel    == "build.shipwright.io/name"
ServiceLabel  == "serving.knative.dev/service"
RevisionLabel == "serving.knative.dev/revision"
JobRunLabel   == "codeengine.cloud.ibm.com/job-run"
JobDefLabel   == "codeengine.cloud.ibm.com/job-definition-name"

\* _, ok := labels[key]
HasLabel(labels, key) == key \in DOMAIN labels

\* labels[key]
LabelValue(labels, key) == IF key \in DOMAIN labels THEN labels[key] ELSE ""

\* A bug the classifier could have: build, then app, then job, stopping at
\* the first match
FirstMatchType(labels) ==
    IF HasLabel(labels, BuildRunLabel) THEN "build"
    ELSE IF HasLabel(labels, ServiceLabel) THEN "app"
    ELSE IF HasLabel(labels, JobRunLabel) THEN "job"
    ELSE "unknown"

\* main.go 88-97: three independent ifs, each overwriting componentType
componentType(labels) ==
    LET t0 == "unknown"
        t1 == IF HasLabel(labels, BuildRunLabel) THEN "build" ELSE t0
        t2 == IF HasLabel(labels, ServiceLabel) THEN "app" ELSE t1
        t3 == IF HasLabel(labels, JobRunLabel) THEN "job" ELSE t2
    IN  t3

\* main.go 99-122: the switch on componentType, componentName
componentName(type, labels) ==
    CASE type = "job" ->
            IF HasLabel(labels, JobDefLabel) THEN labels[JobDefLabel] ELSE "standalone"
      [] type = "app" -> LabelValue(labels, ServiceLabel)
      [] type = "build" ->
            IF HasLabel(labels, BuildLabel) THEN labels[BuildLabel] ELSE "standalone"
      [] OTHER -> "unknown"

\* main.go 99-122: the switch on componentType, parent
parent(type, labels) ==
    CASE type = "job" -> LabelValue(labels, JobRunLabel)
      [] type = "app" -> LabelValue(labels, RevisionLabel)
      [] type = "build" -> LabelValue(labels, BuildRunLabel)
      [] OTHER -> ""

----------------------------------------------------------------------------
(* Resource lists, limits and the pod lookup *)

\* ResourceList.Cpu(): the quantity of the list, a zero quantity when the
\* list has none (never nil)
Cpu(rl) == IF "cpu" \in DOMAIN rl THEN rl["cpu"] ELSE Zero

\* ResourceList.Memory()
Memory(rl) == IF "memory" \in DOMAIN rl THEN rl["memory"] ELSE Zero

Nil == {}
NilLimits == <<Nil, Nil>>

\* Limits of container c as the pair of pointers the function returns
LimitsOf(c) == <<{Cpu(c.limits)}, {Memory(c.limits)}>>

\* A bug the app branch could have: take the first container like the
\* other branches
FirstContainerLimit(type, p) ==
    IF type \in {"job", "app", "build"} /\ Len(p.containers) > 0
    THEN LimitsOf(p.containers[1])
    ELSE NilLimits

\* main.go 233-259
getCpuAndMemoryLimit(type, p) ==
    IF type = "job" THEN
        IF Len(p.containers) > 0 THEN LimitsOf(p.containers[1]) ELSE NilLimits
    ELSE IF type = "app" THEN
        LET hits == {i \in 1..Len(p.containers) :
                        p.containers[i].name = "user-container"}
        IN  IF hits = {} THEN NilLimits
            ELSE LimitsOf(p.containers[CHOOSE i \in hits : \A j \in hits : i <= j])
    ELSE IF type = "build" THEN
        IF Len(p.containers) > 0 THEN LimitsOf(p.containers[1]) ELSE NilLimits
    ELSE NilLimits

\* A bug the lookup could have: match any pod
AnyPod(name, list) == IF Len(list) = 0 THEN Nil ELSE {list[1]}

\* main.go 162-169: the first pod of that name, nil when there is none
getPod(name, list) ==
    LET hits == {i \in 1..Len(list) : list[i].name = name}
    IN  IF hits = {} THEN Nil
        ELSE {list[CHOOSE i \in hits : \A j \in hits : i <= j]}

----------------------------------------------------------------------------
(* One iteration of the range loop of collectInstanceMetrics *)

\* A bug the percentage could have: round to the nearest integer instead
\* of truncating
RoundedPercent(current, limit, a) ==
    LET r == FMul(FDiv(current, limit), 100)
    IN  IF IsFinite(r) THEN (2 * r.n + r.d) \div (2 * r.d) ELSE ToInt64(r, a)

\* main.go 147, 151: int64(current / limit * 100)
usagePercent(current, limit, a) == ToInt64(FMul(FDiv(current, limit), 100), a)

\* main.go 123: Containers[0].Usage.Cpu() in cores, times 1000
cpuCurrent(podMetric) == FMul(Cpu(podMetric.containers[1].usage), 1000)

\* main.go 124: Containers[0].Usage.Memory() in bytes, / 1000 / 1000
memoryCurrent(podMetric) ==
    FDivInt(FDivInt(Memory(podMetric.containers[1].usage), 1000), 1000)

\* main.go 145: the cpu limit in cores, times 1000
cpuLimit(cpu) == FMul(cpu, 1000)

\* main.go 149: the memory limit in bytes, / 1000 / 1000
memoryLimit(memory) == FDivInt(FDivInt(memory, 1000), 1000)

\* main.go 154
Message(type, name, cpu, memory) ==
    <<"Captured metrics of ", type, " instance '", name, "': ",
      cpu, "m vCPU, ", memory, " MB memory">>

\* main.go 88-138: the record before the pod lookup
InitialStats(podMetric, a) ==
    LET type == componentType(podMetric.labels)
    IN  [Metric        |-> "instance-resources",
         Name          |-> podMetric.name,
         Parent        |-> parent(type, podMetric.labels),
         ComponentType |-> type,
         ComponentName |-> componentName(type, podMetric.labels),
         Cpu    |-> [Current |-> ToInt64(cpuCurrent(podMetric), a),
                     Configured |-> 0, Usage |-> 0],
         Memory |-> [Current |-> ToInt64(memoryCurrent(podMetric), a),
                     Configured |-> 0, Usage |-> 0],
         Message |-> <<>>]

\* main.go 145-151: the fields filled from the limits (both non-nil)
WithLimits(stats, podMetric, lim, a) ==
    LET cl == cpuLimit(CHOOSE q \in lim[1] : TRUE)
        ml == memoryLimit(CHOOSE q \in lim[2] : TRUE)
    IN  [stats EXCEPT
            !.Cpu.Configured = ToInt64(cl, a),
            !.Cpu.Usage = usagePercent(cpuCurrent(podMetric), cl, a),
            !.Memory.Configured = ToInt64(ml, a),
            !.Memory.Usage = usagePercent(memoryCurrent(podMetric), ml, a)]

\* main.go 154: the message is built from the final record
WithMessage(stats) ==
    [stats EXCEPT !.Message =
        Message(stats.ComponentType, stats.Name, stats.Cpu.Current, stats.Memory.Current)]

\* main.go 262-273: the JSON object, keyed by the json tags of the structs
\* (the argument is never nil and marshalling this struct cannot fail, so
\* the "" and "marshal error" results do not occur)
ToJSONString(stats) ==
    LET rs(r) == [current |-> r.Current, configured |-> r.Configured, usage |-> r.Usage]
    IN  [metric         |-> stats.Metric,
         name           |-> stats.Name,
         parent         |-> stats.Parent,
         component_type |-> stats.ComponentType,
         component_name |-> stats.ComponentName,
         cpu            |-> rs(stats.Cpu),
         memory         |-> rs(stats.Memory),
         message        |-> stats.Message]

ProgressLine == [kind |-> "progress", text |-> "Start to capture pod metrics ..."]
SummaryLine  == [kind |-> "summary", text |-> "Captured pod metrics in "]
ErrorLine(what) == [kind |-> "error", text |-> what]
RecordLine(stats) == [kind |-> "record", json |-> ToJSONString(stats)]

----------------------------------------------------------------------------
(* The environment: INTERVAL, the listing APIs *)

Digits == {"0", "1", "2", "3", "4", "5", "6", "7", "8", "9"}

DigitValue(c) ==
    CASE c = "0" -> 0 [] c = "1" -> 1 [] c = "2" -> 2 [] c = "3" -> 3 [] c = "4" -> 4
      [] c = "5" -> 5 [] c = "6" -> 6 [] c = "7" -> 7 [] c = "8" -> 8 [] c = "9" -> 9

RECURSIVE DecimalValue(_)
DecimalValue(s) ==
    IF s = <<>> THEN 0
    ELSE 10 * DecimalValue(SubSeq(s, 1, Len(s) - 1)) + DigitValue(s[Len(s)])

\* strconv.Atoi: an optional sign and at least one decimal digit; anything
\* else yields 0 and an error
Atoi(s) ==
    LET signed == Len(s) > 0 /\ s[1] \in {"+", "-"}
        body   == IF signed THEN Tail(s) ELSE s
        ok     == Len(body) > 0 /\ \A i \in 1..Len(body) : body[i] \in Digits
        v      == IF ok THEN DecimalValue(body) ELSE 0
    IN  [value |-> IF signed /\ s[1] = "-" THEN -v ELSE v, err |-> ~ok]

\* main.go 31-35
SleepDurationOf(t) == IF t /= <<>> THEN Atoi(t).value ELSE 10

\* The page a List request with this continuation token is answered with
PageOf(token) == IF token = <<>> THEN 1 ELSE token[1]

\* A listing of the given pages: every page but the last carries the
\* token of the page that follows it
MkSource(pages) ==
    [k \in 1..Len(pages) |->
        [items |-> pages[k],
         continue |-> IF k < Len(pages) THEN <<k + 1>> ELSE <<>>]]

\* A bug the paging could have: never pass the token on
NoToken(token) == <<>>

\* main.go 185, 216: ListOptions.Continue of the request
RequestToken(token) == token

----------------------------------------------------------------------------
(* The process *)

\* main.go 21-35
Main ==
    /\ pc = "main"
    /\ pc' = "collect"
    /\ sleepDuration' = IF jobMode = "task" THEN sleepDuration
                         ELSE SleepDurationOf(intervalEnv)
    /\ UNCHANGED <<envVars, cycles, slept, podVars, metricsVars, loopVars, out>>

\* main.go 63-78: the progress line, the in-cluster configuration and the
\* namespace file (either may be missing: panic)
StartCycle ==
    /\ pc = "collect"
    /\ cycles < MaxCycles
    /\ cycles' = cycles + 1
    /\ out' = <<ProgressLine>>
    /\ pc' \in {"getAllPods", "panicked"}
    /\ pods' = <<>> /\ podsContinueToken' = <<>> /\ podReqs' = <<>> /\ podsFailedAt' = 0
    /\ podMetrics' = <<>> /\ metricsContinueToken' = <<>>
    /\ metricsReqs' = <<>> /\ metricsFailedAt' = 0
    /\ idx' = 1 /\ ctype' = "" /\ pod' = Nil /\ limits' = NilLimits
    /\ UNCHANGED <<envVars, sleepDuration, slept>>

\* main.go 172-183: the core clientset (panic when it cannot be built)
NewPodsClient ==
    /\ pc = "getAllPods"
    /\ pc' \in {"listPods", "panicked"}
    /\ UNCHANGED <<envVars, driverVars, podVars, metricsVars, loopVars, out>>

\* main.go 184-199: one List request of the pod listing, answered with a
\* page or with an error
ListPods ==
    /\ pc = "listPods"
    /\ podReqs' = Append(podReqs, RequestToken(podsContinueToken))
    /\ \/ LET podList == podSource[PageOf(RequestToken(podsContinueToken))]
          IN  /\ pods' = pods \o podList.items
              /\ podsContinueToken' = podList.continue
              /\ pc' = IF Len(podList.continue) = 0
                        THEN "getAllPodMetrics" ELSE "listPods"
              /\ UNCHANGED <<podsFailedAt, out>>
       \/ /\ out' = Append(out, ErrorLine("Failed to list pods"))
          /\ podsFailedAt' = Len(podReqs) + 1
          /\ pc' = "getAllPodMetrics"
          /\ UNCHANGED <<pods, podsContinueToken>>
    /\ UNCHANGED <<envVars, driverVars, metricsVars, loopVars>>

\* main.go 203-213: the metrics clientset (panic when it cannot be built)
NewMetricsClient ==
    /\ pc = "getAllPodMetrics"
    /\ pc' \in {"listPodMetrics", "panicked"}
    /\ UNCHANGED <<envVars, driverVars, podVars, metricsVars, loopVars, out>>

\* main.go 214-229: one List request of the pod-metrics listing, answered
\* with a page or with an error
ListPodMetrics ==
    /\ pc = "listPodMetrics"
    /\ metricsReqs' = Append(metricsReqs, RequestToken(metricsContinueToken))
    /\ \/ LET podMetricsList ==
                  metricsSource[PageOf(RequestToken(metricsContinueToken))]
          IN  /\ podMetrics' = podMetrics \o podMetricsList.items
              /\ metricsContinueToken' = podMetricsList.continue
              /\ pc' = IF Len(podMetricsList.continue) = 0
                        THEN "range" ELSE "listPodMetrics"
              /\ UNCHANGED <<metricsFailedAt, out>>
       \/ /\ out' = Append(out, ErrorLine("Failed to list pod metrics"))
          /\ metricsFailedAt' = Len(metricsReqs) + 1
          /\ pc' = "range"
          /\ UNCHANGED <<podMetrics, metricsContinueToken>>
    /\ UNCHANGED <<envVars, driverVars, podVars, loopVars>>

\* main.go 86-157: one iteration of the range loop.  Containers[0] of a
\* metric without containers is an index out of range (123); ToDec on a nil
\* limit is a nil dereference (145): either ends the process.
ProcessSample ==
    /\ pc = "range"
    /\ idx <= Len(podMetrics)
    /\ LET podMetric == podMetrics[idx]
           type == componentType(podMetric.labels)
       IN  IF Len(podMetric.containers) = 0
           THEN /\ pc' = "panicked"
                /\ UNCHANGED <<loopVars, out>>
           ELSE LET found == getPod(podMetric.name, pods)
                    lim == IF found = Nil THEN NilLimits
                           ELSE getCpuAndMemoryLimit(type, CHOOSE q \in found : TRUE)
                    stats == InitialStats(podMetric, arch)
                IN  /\ ctype' = type
                    /\ pod' = found
                    /\ limits' = lim
                    /\ IF found /= Nil /\ (lim[1] = Nil \/ lim[2] = Nil)
                       THEN /\ pc' = "panicked"
                            /\ UNCHANGED <<idx, out>>
                       ELSE /\ out' = Append(out, RecordLine(WithMessage(
                                    IF found = Nil THEN stats
                                    ELSE WithLimits(stats, podMetric, lim, arch))))
                            /\ idx' = idx + 1
                            /\ pc' = "range"
    /\ UNCHANGED <<envVars, driverVars, podVars, metricsVars>>

\* main.go 159: the timing line, after the last iteration
Summary ==
    /\ pc = "range"
    /\ idx > Len(podMetrics)
    /\ out' = Append(out, SummaryLine)
    /\ pc' = "cycleDone"
    /\ UNCHANGED <<envVars, driverVars, podVars, metricsVars, loopVars>>

\* main.go 26-29: task mode returns after the one cycle
Return ==
    /\ pc = "cycleDone"
    /\ jobMode = "task"
    /\ pc' = "exit"
    /\ UNCHANGED <<envVars, driverVars, podVars, metricsVars, loopVars, out>>

\* main.go 38-41: daemon mode sleeps and starts over
Sleep ==
    /\ pc = "cycleDone"
    /\ jobMode /= "task"
    /\ slept' = Append(slept, sleepDuration)
    /\ pc' = "collect"
    /\ UNCHANGED <<envVars, sleepDuration, cycles, podVars, metricsVars, loopVars, out>>

Next ==
    \/ Main
    \/ StartCycle
    \/ NewPodsClient
    \/ ListPods
    \/ NewMetricsClient
    \/ ListPodMetrics
    \/ ProcessSample
    \/ Summary
    \/ Return
    \/ Sleep

----------------------------------------------------------------------------
(* Initial states: the environments the process is started in *)

RECURSIVE SeqsUpTo(_, _)
\* The sequences over S of length at most n
SeqsUpTo(S, n) ==
    IF n = 0 THEN {<<>>}
    ELSE LET shorter == SeqsUpTo(S, n - 1)
         IN  shorter \cup {Append(q, x) : q \in shorter, x \in S}

Lbl(keys) == [k \in keys |-> "x"]
LabelKeys == {BuildRunLabel, BuildLabel, ServiceLabel, RevisionLabel,
              JobRunLabel, JobDefLabel}
AllLabels == {Lbl(keys) : keys \in SUBSET LabelKeys}
TypeLabels == {Lbl({}), Lbl({JobRunLabel}), Lbl({ServiceLabel, RevisionLabel}),
               Lbl({BuildRunLabel})}

Cores(milli) == Rat(milli, 1000)
Bytes(b) == Rat(b, 1)

BaseUsage == <<[usage |-> [cpu |-> Cores(250), memory |-> Bytes(104857600)]]>>
BaseLimits == [cpu |-> Cores(500), memory |-> Bytes(500000000)]

PodMetric(name, labels, containers) ==
    [name |-> name, labels |-> labels, containers |-> containers]
PodDef(name, containers) == [name |-> name, containers |-> containers]
Container(name, lim) == [name |-> name, limits |-> lim]

BasePod(name) == PodDef(name, <<Container("user-container", BaseLimits)>>)

Scenario(jm, iv, a, podPages, metricsPages) ==
    [jobMode |-> jm, intervalEnv |-> iv, arch |-> a,
     podSource |-> MkSource(podPages), metricsSource |-> MkSource(metricsPages)]

\* Every label set on one metric, its pod being listed
LabelScenarios ==
    {Scenario("task", <<>>, "amd64", <<<<BasePod("p1")>>>>,
              <<<<PodMetric("p1", l, BaseUsage)>>>>) : l \in AllLabels}

LimitLists ==
    {<<>>, BaseLimits, [cpu |-> Cores(2000), memory |-> Bytes(1000000000)],
     [cpu |-> Zero]}
ContainerDomain ==
    {Container(n, l) : n \in {"user-container", "istio-proxy"}, l \in LimitLists}

\* Every container list on one pod, for a metric of every component type
ContainerScenarios ==
    {Scenario("task", <<>>, a, <<<<PodDef("p1", cs)>>>>,
              <<<<PodMetric("p1", l, BaseUsage)>>>>) :
        a \in Archs, cs \in SeqsUpTo(ContainerDomain, MaxContainers), l \in TypeLabels}

CpuUsages == {Zero, Rat(1, 2000), Cores(249), Cores(250), Cores(498)}
CpuLimits == {Zero, Rat(1, 2000), Cores(250), Cores(500)}
MemoryUsages == {Zero, Bytes(104857600), Bytes(499000000)}
MemoryLimits == {Zero, Bytes(104857600), Bytes(500000000)}

\* Usage and limit values on one job metric and its pod
NumericScenarios ==
    {Scenario("task", <<>>, a,
              <<<<PodDef("p1", <<Container("job", [cpu |-> cl, memory |-> ml])>>)>>>>,
              <<<<PodMetric("p1", Lbl({JobRunLabel}),
                            <<[usage |-> [cpu |-> cu, memory |-> mu]]>>)>>>>) :
        a \in Archs, cu \in CpuUsages, cl \in CpuLimits,
        mu \in MemoryUsages, ml \in MemoryLimits}

\* Three metrics: an app and a job, and one without ownership labels
M1 == PodMetric("p1", Lbl({ServiceLabel, RevisionLabel}), BaseUsage)
M2 == PodMetric("p2", Lbl({JobRunLabel, JobDefLabel}), BaseUsage)
M3 == PodMetric("p3", Lbl({}), BaseUsage)
PageContents(a, b, c) == {<<>>, <<a>>, <<b>>, <<c>>, <<a, b>>}
NonEmptySeqs(S, n) == SeqsUpTo(S, n) \ {<<>>}

\* The pod listing spread over pages in every way
PodPagingScenarios ==
    {Scenario("task", <<>>, "amd64", pp, <<<<M1, M2, M3>>>>) :
        pp \in NonEmptySeqs(PageContents(BasePod("p1"), BasePod("p2"), BasePod("p3")),
                            MaxPages)}

\* The metrics listing spread over pages in every way
MetricsPagingScenarios ==
    {Scenario("task", <<>>, "amd64", <<<<BasePod("p1"), BasePod("p2")>>>>, mp) :
        mp \in NonEmptySeqs(PageContents(M1, M2, M3), MaxPages)}

MetricDomain ==
    {PodMetric(n, l, cs) : n \in {"p1", "p2"}, l \in {Lbl({}), Lbl({JobRunLabel})},
                           cs \in {<<>>, BaseUsage}}

\* Every list of metrics, one pod being listed
MetricListScenarios ==
    {Scenario("task", <<>>, "amd64", <<<<BasePod("p1")>>>>, <<ms>>) :
        ms \in SeqsUpTo(MetricDomain, MaxSamples)}

IntervalChars == {"0", "1", "7", "+", "-", "x"}
JobModes == {"task", "daemon", ""}

\* Every JOB_MODE and INTERVAL on a small namespace
DriverScenarios ==
    {Scenario(jm, iv, "amd64", <<<<BasePod("p1")>>>>, <<<<M1>>>>) :
        jm \in JobModes, iv \in SeqsUpTo(IntervalChars, MaxIntervalLen)}

Scenarios ==
    LabelScenarios \cup ContainerScenarios \cup NumericScenarios
    \cup PodPagingScenarios \cup MetricsPagingScenarios
    \cup MetricListScenarios \cup DriverScenarios

Init ==
    /\ \E sc \in Scenarios :
        /\ jobMode = sc.jobMode
        /\ intervalEnv = sc.intervalEnv
        /\ arch = sc.arch
        /\ podSource = sc.podSource
        /\ metricsSource = sc.metricsSource
    /\ pc = "main"
    /\ sleepDuration = 0
    /\ cycles = 0
    /\ slept = <<>>
    /\ pods = <<>> /\ podsContinueToken = <<>> /\ podReqs = <<>> /\ podsFailedAt = 0
    /\ podMetrics = <<>> /\ metricsContinueToken = <<>>
    /\ metricsReqs = <<>> /\ metricsFailedAt = 0
    /\ idx = 1 /\ ctype = "" /\ pod = Nil /\ limits = NilLimits
    /\ out = <<>>

Spec == Init /\ [][Next]_vars

----------------------------------------------------------------------------
(* Vocabulary of the properties *)

Records == SelectSeq(out, LAMBDA line : line.kind = "record")

\* The iteration for metric i of the current cycle has printed its record
Processed(i) == i \in 1..(idx - 1) /\ i <= Len(podMetrics)

HasDefinition(i) == \E j \in 1..Len(pods) : pods[j].name = podMetrics[i].name
DefinitionOf(i) ==
    pods[CHOOSE j \in 1..Len(pods) :
            /\ pods[j].name = podMetrics[i].name
            /\ \A k \in 1..(j - 1) : pods[k].name /= podMetrics[i].name]

\* The process died inside the range loop, at metric idx
RangePanic == pc = "panicked" /\ idx <= Len(podMetrics)

\* The cycle ran to its end
CycleDone == pc \in {"cycleDone", "exit"}

RECURSIVE Concat(_, _)
\* items(1) \o ... \o items(n) of a listing
Concat(source, n) ==
    IF n = 0 THEN <<>> ELSE Concat(source, n - 1) \o source[n].items

\* int64 of a quantity in cores, as milli-cores
Milli(q) == (q.n * 1000) \div q.d
\* int64 of a quantity in bytes, as MB
MegaBytes(q) == q.n \div (q.d * 1000000)

UsageOf(i) == podMetrics[i].containers[1].usage
HasKey(l, k) == k \in DOMAIN l

----------------------------------------------------------------------------
(* C1: classification order *)

----------------------------------------------------------------------------
(* C2: the sleep between cycles *)

\* C2 as claimed: with INTERVAL unset or not an integer, every sleep
\* between two cycles lasts 10 seconds.
C2_DefaultSleep ==
    (jobMode /= "task" /\ (intervalEnv = <<>> \/ Atoi(intervalEnv).err))
        => \A i \in 1..Len(slept) : slept[i] = 10

----------------------------------------------------------------------------
(* C3: metrics without a pod definition *)

----------------------------------------------------------------------------
(* C4: a limit of zero *)

\* C4 as claimed: a record whose pod resolves to a limit of zero in a
\* dimension has usage 0 in that dimension.
C4_ZeroLimitZeroUsage ==
    \A i \in 1..Len(Records) :
        (Processed(i) /\ HasDefinition(i)) =>
            LET lim == getCpuAndMemoryLimit(Records[i].json.component_type,
                                            DefinitionOf(i))
            IN  /\ (lim[1] /= Nil /\ \A q \in lim[1] : q.n = 0)
                        => Records[i].json.cpu.usage = 0
                /\ (lim[2] /= Nil /\ \A q \in lim[2] : q.n = 0)
                        => Records[i].json.memory.usage = 0

----------------------------------------------------------------------------
(* C5: absent limits *)

\* Metric i has a pod definition for which no limits are returned
AbsentLimits(i) ==
    /\ Len(podMetrics[i].containers) > 0
    /\ HasDefinition(i)
    /\ getCpuAndMemoryLimit(componentType(podMetrics[i].labels), DefinitionOf(i))
            = NilLimits

\* C5 as claimed: a metric whose pod yields absent limits does not end the
\* cycle; its record is printed with configured and usage 0.
C5_AbsentLimitsNoFailure ==
    \A i \in 1..Len(podMetrics) :
        (pc \in {"range", "panicked", "cycleDone", "exit"} /\ AbsentLimits(i)) =>
            /\ ~(RangePanic /\ idx = i)
            /\ (i < idx /\ i <= Len(Records)) =>
                  /\ Records[i].json.cpu.configured = 0
                  /\ Records[i].json.cpu.usage = 0
                  /\ Records[i].json.memory.configured = 0
                  /\ Records[i].json.memory.usage = 0

----------------------------------------------------------------------------
(* C6: paging *)

\* The tokens of the requests so far follow the listing: the first request
\* carries the empty token, each later one the token the page before it
\* returned, and request i is answered with page i
FollowsTokens(reqs, source) ==
    \A i \in 1..Len(reqs) :
        /\ reqs[i] = IF i = 1 THEN <<>> ELSE source[PageOf(reqs[i - 1])].continue
        /\ PageOf(reqs[i]) = i
        /\ i <= Len(source)

\* What a listing loop holds while no request of it has failed: the items
\* of the pages requested, in page order, and, once the loop is left, those
\* of every page
PagedInOrder(inLoop, left, reqs, failedAt, source, items) ==
    failedAt = 0 =>
        /\ FollowsTokens(reqs, source)
        /\ (inLoop \/ left) => items = Concat(source, Len(reqs))
        /\ left => Len(reqs) = Len(source)
        /\ (inLoop /\ reqs /= <<>>) => Len(reqs) < Len(source)

\* C6: without a failing request getAllPods and getAllPodMetrics pass on
\* the token of the page before, stop at the empty token and return the
\* items of all pages in page order.
C6_PagesInOrder ==
    /\ PagedInOrder(pc = "listPods",
                    pc \in {"getAllPodMetrics", "listPodMetrics", "range",
                            "cycleDone", "exit"},
                    podReqs, podsFailedAt, podSource, pods)
    /\ PagedInOrder(pc = "listPodMetrics",
                    pc \in {"range", "cycleDone", "exit"},
                    metricsReqs, metricsFailedAt, metricsSource, podMetrics)

C6_Witness ==
    /\ pc = "range"
    /\ podsFailedAt = 0 /\ metricsFailedAt = 0
    /\ Len(podSource) = 3 /\ Len(podReqs) = 3
    /\ podReqs = <<<<>>, podSource[1].continue, podSource[2].continue>>
    /\ Len(pods) >= 3
    /\ pods = podSource[1].items \o podSource[2].items \o podSource[3].items

----------------------------------------------------------------------------
(* C7: a failing page of the pod listing *)

\* The lines of a complete cycle but for the error lines: the progress
\* line, a record per metric in order, the timing line
ExpectedKinds ==
    <<"progress">> \o [i \in 1..Len(podMetrics) |-> "record"] \o <<"summary">>
DataLines == SelectSeq(out, LAMBDA line : line.kind /= "error")
OneRecordPerMetric ==
    /\ [i \in 1..Len(DataLines) |-> DataLines[i].kind] = ExpectedKinds
    /\ \A i \in 1..Len(podMetrics) : Records[i].json.name = podMetrics[i].name

\* C7 as claimed: when request k of the pod listing fails there is no
\* further request, the pods are those of pages 1..k-1, and the cycle
\* completes with a record per metric (configured and usage 0 where the
\* definition was not fetched) and the timing line.
C7_PartialPodsCycleCompletes ==
    podsFailedAt > 0 =>
        /\ Len(podReqs) = podsFailedAt
        /\ pods = Concat(podSource, podsFailedAt - 1)
        /\ ~RangePanic
        /\ CycleDone =>
              /\ OneRecordPerMetric
              /\ \A i \in 1..Len(podMetrics) :
                    ~HasDefinition(i) =>
                        /\ Records[i].json.cpu.configured = 0
                        /\ Records[i].json.cpu.usage = 0
                        /\ Records[i].json.memory.configured = 0
                        /\ Records[i].json.memory.usage = 0

----------------------------------------------------------------------------
(* C8: the lines of a cycle *)

\* C8 as claimed, for the lists of metrics whose limits all resolve: a
\* cycle whose clients were built prints the progress line, one record per
\* metric in order and the timing line, also for metrics without
\* containers, and no record before both listings are done.
C8_OneRecordPerSample ==
    (\A i \in 1..Len(podMetrics) :
        Len(podMetrics[i].containers) > 0 => ~AbsentLimits(i)) =>
        /\ ~RangePanic
        /\ CycleDone => OneRecordPerMetric
        /\ pc \in {"collect", "getAllPods", "listPods", "getAllPodMetrics",
                    "listPodMetrics"} => Records = <<>>

----------------------------------------------------------------------------
(* C9: the container the limits are taken from *)

UserContainers(p) ==
    {i \in 1..Len(p.containers) : p.containers[i].name = "user-container"}

\* C9: for an app the limits are those of the container named
\* "user-container", absent when there is none; for a job and a build
\* those of the first container, whatever its name.
C9_LimitContainer ==
    \A p \in pod :
        /\ ctype = "app" =>
              IF UserContainers(p) = {} THEN limits = NilLimits
              ELSE \E i \in UserContainers(p) :
                      /\ \A j \in UserContainers(p) : i <= j
                      /\ limits = <<{Cpu(p.containers[i].limits)},
                                     {Memory(p.containers[i].limits)}>>
        /\ ctype \in {"job", "build"} =>
              IF Len(p.containers) = 0 THEN limits = NilLimits
              ELSE limits = <<{Cpu(p.containers[1].limits)},
                              {Memory(p.containers[1].limits)}>>

C9_Witness ==
    \E p \in pod :
        /\ ctype = "app"
        /\ Len(p.containers) = 2
        /\ p.containers[1].name = "istio-proxy"
        /\ p.containers[1].limits = BaseLimits
        /\ p.containers[2].name = "user-container"
        /\ limits = <<{Cores(2000)}, {Bytes(1000000000)}>>

----------------------------------------------------------------------------
(* C10: the usage percentage *)

\* The limits metric i is compared with, as quantities
LimitOf(i) ==
    LET lim == getCpuAndMemoryLimit(componentType(podMetrics[i].labels),
                                    DefinitionOf(i))
    IN  [cpu |-> CHOOSE q \in lim[1] : TRUE, memory |-> CHOOSE q \in lim[2] : TRUE]

\* k is the percentage current / limit * 100 rounded to the nearest integer
IsRounded(k, current, limit) ==
    LET r == FMul(FDiv(current, limit), 100)
    IN  (2 * k - 1) * r.d <= 2 * r.n /\ 2 * r.n < (2 * k + 1) * r.d

\* k is the percentage current / limit * 100 with its fraction cut off
IsTruncated(k, current, limit) ==
    LET r == FMul(FDiv(current, limit), 100)
    IN  k * r.d <= r.n /\ r.n < (k + 1) * r.d

\* Metric i has a record, a definition and limits
Compared(i) ==
    /\ Processed(i) /\ i <= Len(Records)
    /\ HasDefinition(i)
    /\ ~AbsentLimits(i)

\* C10 as claimed: with a definition and a non-zero limit, usage is
\* current / configured * 100 rounded to the nearest integer.
C10_UsageRounded ==
    \A i \in 1..Len(Records) :
        Compared(i) =>
            /\ LimitOf(i).cpu.n /= 0 =>
                  IsRounded(Records[i].json.cpu.usage, Cpu(UsageOf(i)), LimitOf(i).cpu)
            /\ LimitOf(i).memory.n /= 0 =>
                  IsRounded(Records[i].json.memory.usage, Memory(UsageOf(i)),
                            LimitOf(i).memory)

\* C10 amended: with a definition and a non-zero limit, usage is
\* current / configured * 100 with the fraction cut off (99.6 is reported
\* as 99), current and configured being the milli-cores and the MB, each
\* cut to an integer.
C10_UsageTruncated ==
    \A i \in 1..(idx - 1) :
        (i <= Len(podMetrics) /\ HasDefinition(i) /\ ~AbsentLimits(i)) =>
            /\ i <= Len(Records)
            /\ LET r == Records[i].json
               IN  /\ r.cpu.current = Milli(Cpu(UsageOf(i)))
                   /\ r.cpu.configured = Milli(LimitOf(i).cpu)
                   /\ r.memory.current = MegaBytes(Memory(UsageOf(i)))
                   /\ r.memory.configured = MegaBytes(LimitOf(i).memory)
                   /\ LimitOf(i).cpu.n /= 0 =>
                         IsTruncated(r.cpu.usage, Cpu(UsageOf(i)), LimitOf(i).cpu)
                   /\ LimitOf(i).memory.n /= 0 =>
                         IsTruncated(r.memory.usage, Memory(UsageOf(i)),
                                     LimitOf(i).memory)

C10_Witness ==
    \E i \in 1..Len(Records) :
        /\ Compared(i)
        /\ Records[i].json.cpu = [current |-> 249, configured |-> 250, usage |-> 99]
        /\ Records[i].json.memory = [current |-> 104, configured |-> 500, usage |-> 20]

====
